---- MODULE Spec2Model ----
(***************************************************************************)
(* A model of the heap-event trace decoder of heapspurs: pkg/trace         *)
(* ParseTrace (src/unnamed/part_000), its batch decoders                   *)
(* parseAllocFreeInfo / parseAllocFreeTypes and the report it returns,     *)
(* printed by cmd/tracespurs.                                              *)
(*                                                                         *)
(* Machine words.  Go's uint64, int (64 bits on the amd64/arm64 builds     *)
(* this tool targets) and trace.Time (int64) are modelled at their real    *)
(* width as four 16-bit limbs, least significant first, so that wrapping   *)
(* arithmetic is computed exactly.  A conversion between uint64 and int    *)
(* keeps the bits; only the reading of the top bit differs.                *)
(***************************************************************************)
EXTENDS Integers, Sequences, FiniteSets

(***************************************************************************)
(* 64-bit words                                                            *)
(***************************************************************************)
Limb == 65536

Half == 32768

Small(n) == <<n % Limb, (n \div Limb) % Limb, 0, 0>>

Zero64 == <<0, 0, 0, 0>>

MinInt64 == <<0, 0, 0, Half>>

MaxInt64 == <<Limb - 1, Limb - 1, Limb - 1, Half - 1>>

MaxUint64 == <<Limb - 1, Limb - 1, Limb - 1, Limb - 1>>

\* a + b + c0 modulo 2^64 (c0 is a carry-in of 0 or 1)
AddC(a, b, c0) ==
    LET s1 == a[1] + b[1] + c0
        s2 == a[2] + b[2] + (s1 \div Limb)
        s3 == a[3] + b[3] + (s2 \div Limb)
        s4 == a[4] + b[4] + (s3 \div Limb)
    IN  <<s1 % Limb, s2 % Limb, s3 % Limb, s4 % Limb>>

Add64(a, b) == AddC(a, b, 0)

Not64(a) == <<Limb - 1 - a[1], Limb - 1 - a[2], Limb - 1 - a[3], Limb - 1 - a[4]>>

\* a - b modulo 2^64
Sub64(a, b) == AddC(a, Not64(b), 1)

\* a * 8 modulo 2^64
Mul8(a) ==
    LET t1 == a[1] * 8
        t2 == a[2] * 8 + (t1 \div Limb)
        t3 == a[3] * 8 + (t2 \div Limb)
        t4 == a[4] * 8 + (t3 \div Limb)
    IN  <<t1 % Limb, t2 % Limb, t3 % Limb, t4 % Limb>>

\* a / 8, unsigned
Div8(a) ==
    LET q4 == a[4] \div 8
        r4 == a[4] % 8
        q3 == (r4 * Limb + a[3]) \div 8
        r3 == (r4 * Limb + a[3]) % 8
        q2 == (r3 * Limb + a[2]) \div 8
        r2 == (r3 * Limb + a[2]) % 8
        q1 == (r2 * Limb + a[1]) \div 8
    IN  <<q1, q2, q3, q4>>

\* the top bit: the sign of the word read as int / int64
IsNeg(a) == a[4] >= Half

\* unsigned a < b
ULt(a, b) ==
    \/ a[4] < b[4]
    \/ a[4] = b[4] /\ a[3] < b[3]
    \/ a[4] = b[4] /\ a[3] = b[3] /\ a[2] < b[2]
    \/ a[4] = b[4] /\ a[3] = b[3] /\ a[2] = b[2] /\ a[1] < b[1]

\* signed a < b (two's complement)
SLt(a, b) ==
    IF IsNeg(a) /= IsNeg(b) THEN IsNeg(a) ELSE ULt(a, b)

SLe(a, b) == a = b \/ SLt(a, b)

\* v * 2^k for v < 128 and k in 0..15, as two limbs
Pow2(k) == CASE k = 0 -> 1 [] k = 1 -> 2 [] k = 2 -> 4 [] k = 3 -> 8
             [] k = 4 -> 16 [] k = 5 -> 32 [] k = 6 -> 64 [] k = 7 -> 128
             [] k = 8 -> 256 [] k = 9 -> 512 [] k = 10 -> 1024 [] k = 11 -> 2048
             [] k = 12 -> 4096 [] k = 13 -> 8192 [] k = 14 -> 16384 [] k = 15 -> 32768

\* uint64(v) << s for a byte v and a shift s in 0..63 (bits shifted past 63 are lost)
Shl64(v, s) ==
    LET k == s \div 16
        w == v * Pow2(s % 16)
        lo == w % Limb
        hi == w \div Limb
    IN  [i \in 1..4 |-> IF i = k + 1 THEN lo ELSE IF i = k + 2 THEN hi ELSE 0]

\* x | y for words with no set bit in common
Or64(x, y) == Add64(x, y)

(***************************************************************************)
(* BatchDecoder: encoding/binary.Uvarint and the two batch parsers         *)
(***************************************************************************)
MaxVarintLen64 == 10

\* binary.Uvarint from byte i (1-based) on, with x and shift s accumulated so far;
\* n is the number of bytes read, 0 when buf ends early, negative on overflow
RECURSIVE UvarintFrom(_, _, _, _)
UvarintFrom(buf, i, x, s) ==
    IF i > Len(buf) THEN [x |-> Zero64, n |-> 0]
    ELSE IF i - 1 = MaxVarintLen64 THEN [x |-> Zero64, n |-> 0 - i]
    ELSE IF buf[i] < 128
         THEN IF i - 1 = MaxVarintLen64 - 1 /\ buf[i] > 1
              THEN [x |-> Zero64, n |-> 0 - i]
              ELSE [x |-> Or64(x, Shl64(buf[i], s)), n |-> i]
         ELSE UvarintFrom(buf, i + 1, Or64(x, Shl64(buf[i] - 128, s)), s + 7)

Uvarint(buf) == UvarintFrom(buf, 1, Zero64, 0)

\* inputData[n:]
Drop(buf, n) == SubSeq(buf, n + 1, Len(buf))

\* k successive "x, n := binary.Uvarint(inputData); if n <= 0 { panic }; inputData = inputData[n:]"
RECURSIVE ReadUvarints(_, _, _)
\* r is what binary.Uvarint(buf) returned
AfterUvarint(r, buf, k, vals) ==
    IF r.n <= 0 THEN [ok |-> FALSE, vals |-> vals, rest |-> buf]
    ELSE ReadUvarints(Drop(buf, r.n), k - 1, Append(vals, r.x))

ReadUvarints(buf, k, vals) ==
    IF k = 0 THEN [ok |-> TRUE, vals |-> vals, rest |-> buf]
    ELSE AfterUvarint(Uvarint(buf), buf, k, vals)

ZeroTraceInfo ==
    [MinPageHeapAddr |-> Zero64, PageSize |-> Zero64,
     MinHeapAlign |-> Zero64, FixedStack |-> Zero64]

\* parseAllocFreeInfo: ok = FALSE is a panic
\* r holds the four fields read, in order
TraceInfoOf(r) ==
    IF ~r.ok THEN [ok |-> FALSE, val |-> ZeroTraceInfo]
    ELSE [ok |-> TRUE,
          val |-> [MinPageHeapAddr |-> r.vals[1], PageSize |-> r.vals[2],
                   MinHeapAlign |-> r.vals[3], FixedStack |-> r.vals[4]]]

parseAllocFreeInfo(inputData) ==
    IF inputData[1] /= 1 THEN [ok |-> FALSE, val |-> ZeroTraceInfo]
    ELSE TraceInfoOf(ReadUvarints(Tail(inputData), 4, <<>>))

\* a uint64 length that is at most the int n (n < 2^16)
AtMostLen(u, n) == u[4] = 0 /\ u[3] = 0 /\ u[2] = 0 /\ u[1] <= n

\* the loop "for len(inputData) > 0" of parseAllocFreeTypes: the records in buffer order
RECURSIVE ReadTypeRecords(_, _)
\* mutant: a record that cannot be read ends the batch, the records before it are returned
AfterFieldsLenient(r, out) ==
    IF ~r.ok THEN [ok |-> TRUE, val |-> out]
    ELSE IF ~AtMostLen(r.vals[5], Len(r.rest)) THEN [ok |-> TRUE, val |-> out]
    ELSE ReadTypeRecords(
            Drop(r.rest, r.vals[5][1]),
            Append(out, [Id |-> r.vals[1], Ptr |-> r.vals[2], Size |-> r.vals[3],
                         PtrBytes |-> r.vals[4],
                         Name |-> SubSeq(r.rest, 1, r.vals[5][1])]))

\* r holds the five numeric fields of a record (the last is nameLen) and the bytes
\* after them: typName := string(inputData[:nameLen]); inputData = inputData[nameLen:]
AfterFields(r, out) ==
    IF ~r.ok THEN [ok |-> FALSE, val |-> <<>>]
    ELSE IF ~AtMostLen(r.vals[5], Len(r.rest)) THEN [ok |-> FALSE, val |-> <<>>]
    ELSE ReadTypeRecords(
            Drop(r.rest, r.vals[5][1]),
            Append(out, [Id |-> r.vals[1], Ptr |-> r.vals[2], Size |-> r.vals[3],
                         PtrBytes |-> r.vals[4],
                         Name |-> SubSeq(r.rest, 1, r.vals[5][1])]))

ReadTypeRecords(inputData, out) ==
    IF Len(inputData) = 0 THEN [ok |-> TRUE, val |-> out]
    ELSE AfterFields(ReadUvarints(inputData, 5, <<>>), out)

(***************************************************************************)
(* slices.SortFunc with the comparators of the source.  Both comparators   *)
(* have the shape  int(a.f - b.f)  with f an int / int64 field: the        *)
(* difference wraps at 64 bits and the sort only tests "cmp(a, b) < 0".    *)
(* SortFunc is pdqsort: at most maxInsertion elements are insertion-       *)
(* sorted; above that a pivot is chosen (median of three below 50          *)
(* elements), an already sorted slice is returned as is, otherwise the     *)
(* slice is partitioned around the pivot and both sides are sorted.  The   *)
(* inputs of this model have at most maxInsertion + 1 elements, so both    *)
(* sides of the one partition are insertion-sorted.                        *)
(***************************************************************************)
maxInsertion == 12

\* func(a, b) int { return int(a.f - b.f) } < 0
cmpLess(a, b, f) == IsNeg(Sub64(a[f], b[f]))

Swap(data, i, j) == [data EXCEPT ![i] = data[j], ![j] = data[i]]

\* for j := i; j > a && cmp(data[j], data[j-1]) < 0; j-- { swap }
RECURSIVE insertLeft(_, _, _, _)
insertLeft(data, a, j, f) ==
    IF j > a /\ cmpLess(data[j], data[j - 1], f)
    THEN insertLeft(Swap(data, j, j - 1), a, j - 1, f)
    ELSE data

\* insertionSortCmpFunc on data[a..b), from index i on
RECURSIVE insertionSortFrom(_, _, _, _, _)
insertionSortFrom(data, a, b, i, f) ==
    IF i >= b THEN data
    ELSE insertionSortFrom(insertLeft(data, a, i, f), a, b, i + 1, f)

\* order2CmpFunc: the two indices in comparator order, and whether they were swapped
order2CmpFunc(data, x, y, f) ==
    IF cmpLess(data[y], data[x], f) THEN <<y, x, 1>> ELSE <<x, y, 0>>

\* choosePivotCmpFunc for 8 <= len < 50: the median of three and the number of swaps
median3(o1, o2, o3) == [pivot |-> o3[2], swaps |-> o1[3] + o2[3] + o3[3]]

median2(data, o1, o2, f) == median3(o1, o2, order2CmpFunc(data, o1[1], o2[1], f))

median1(data, o1, k, f) == median2(data, o1, order2CmpFunc(data, o1[2], k, f), f)

\* medianCmpFunc(data, i, j, k, &swaps, cmp)
medianCmpFunc(data, i, j, k, f) == median1(data, order2CmpFunc(data, i, j, f), k, f)

choosePivotCmpFunc(data, f) ==
    medianCmpFunc(data, 1 + (Len(data) \div 4) * 1, 1 + (Len(data) \div 4) * 2,
                  1 + (Len(data) \div 4) * 3, f)

\* partialInsertionSortCmpFunc below 50 elements: true exactly when no element is
\* less than its predecessor, and the slice is never changed
partialInsertionSortCmpFunc(data, f) ==
    \A i \in 2..Len(data) : ~cmpLess(data[i], data[i - 1], f)

RECURSIVE scanUp(_, _, _, _)
scanUp(data, i, j, f) ==
    IF i <= j /\ cmpLess(data[i], data[1], f) THEN scanUp(data, i + 1, j, f) ELSE i

RECURSIVE scanDown(_, _, _, _)
scanDown(data, i, j, f) ==
    IF i <= j /\ ~cmpLess(data[j], data[1], f) THEN scanDown(data, i, j - 1, f) ELSE j

\* the loop of partitionCmpFunc, the pivot being data[1]
RECURSIVE partitionLoop(_, _, _, _)
partitionStep(data, i, j, f) ==
    IF i > j THEN [data |-> Swap(data, j, 1), mid |-> j]
    ELSE partitionLoop(Swap(data, i, j), i + 1, j - 1, f)

partitionDown(data, i, j0, f) == partitionStep(data, i, scanDown(data, i, j0, f), f)

partitionLoop(data, i0, j0, f) == partitionDown(data, scanUp(data, i0, j0, f), j0, f)

partitionCmpFunc(data, pivot, f) ==
    partitionLoop(Swap(data, 1, pivot), 2, Len(data), f)

\* both sides of the partition p, each of at most maxInsertion elements
sortSides(p, f) ==
    insertionSortFrom(insertionSortFrom(p.data, 1, p.mid, 2, f),
                      p.mid + 1, Len(p.data) + 1, p.mid + 2, f)

\* c is the pivot chosen for data
pdqsortAround(data, c, f) ==
    IF c.swaps = 0 /\ partialInsertionSortCmpFunc(data, f) THEN data
    ELSE sortSides(partitionCmpFunc(data, c.pivot, f), f)

pdqsortCmpFunc(data, f) ==
    IF Len(data) <= maxInsertion
    THEN insertionSortFrom(data, 1, Len(data) + 1, 2, f)
    ELSE pdqsortAround(data, choosePivotCmpFunc(data, f), f)

SortFunc(data, f) == pdqsortCmpFunc(data, f)

\* parseAllocFreeTypes: the records of the batch, sorted "by ID"; ok = FALSE is a panic
\* r holds the records in buffer order
SortedTypes(r) == IF ~r.ok THEN r ELSE [ok |-> TRUE, val |-> SortFunc(r.val, "Id")]

parseAllocFreeTypes(inputData) ==
    IF inputData[1] /= 0 THEN [ok |-> FALSE, val |-> <<>>]
    ELSE SortedTypes(ReadTypeRecords(Tail(inputData), <<>>))

(***************************************************************************)
(* HeapObject and its methods                                              *)
(***************************************************************************)
\* mutant: the id is not scaled by the object granularity
AddrUnscaled(h, t) == Add64(h.id, t.MinPageHeapAddr)

\* HeapObject.Addr: (h.id * 8) + t.MinPageHeapAddr, in uint64 arithmetic
Addr(h, t) == Add64(Mul8(h.id), t.MinPageHeapAddr)

\* mutant: objects without a catalog entry are reported too
HasNameAlways(h, t) == TRUE

HasName(h, t) == h.typ \in DOMAIN t

\* "???" as bytes
Unknown == <<63, 63, 63>>

Type(h, t) == IF h.typ \in DOMAIN t THEN t[h.typ].Name ELSE Unknown

Size(h, t) == IF h.typ \in DOMAIN t THEN t[h.typ].Size ELSE Zero64

\* m[k] = v on a Go map
MapSet(m, k, v) == [x \in DOMAIN m \cup {k} |-> IF x = k THEN v ELSE m[x]]

\* mutant: deleting a key that is absent empties the map
MapDeleteAbsentClears(m, k) ==
    IF k \in DOMAIN m THEN [x \in DOMAIN m \ {k} |-> m[x]] ELSE [x \in {} |-> 0]

\* delete(m, k)
MapDelete(m, k) == [x \in DOMAIN m \ {k} |-> m[x]]

EmptyMap == [x \in {} |-> 0]

(***************************************************************************)
(* The events the trace reader hands to ParseTrace                         *)
(***************************************************************************)
MaxEvents == 3

Ids == {Small(1), Small(2)}

Typs == {Small(1), Small(2)}

Event(kind, name, args, time, hasData, batches) ==
    [kind |-> kind, name |-> name, Args |-> args, time |-> time,
     hasData |-> hasData, Batches |-> batches]

\* heap object exists [timestamp, id, type]
ExistsEvents ==
    {Event("Experimental", "HeapObject", <<i, Small(1)>>, Small(2), FALSE, <<>>) :
        i \in Ids}

\* heap object alloc [timestamp, id, type]: type 1 at time 1 and type 2 at time 2
AllocEvents ==
    {Event("Experimental", "HeapObjectAlloc", <<i, k>>, k, FALSE, <<>>) :
        i \in Ids, k \in Typs}

FreeEvents ==
    {Event("Experimental", "HeapObjectFree", <<i>>, Small(2), FALSE, <<>>) : i \in Ids}

\* one type record: id (already a varint), pointer 7, size, no pointer bytes, name
Rec(idBytes, size, name) == idBytes \o <<7, size, 0, Len(name)>> \o name

\* minHeapAddr 0x1000, pageSize 8192, minHeapAlign 8, fixedStackSize 2048
InfoA == <<1, 128, 32, 128, 64, 8, 128, 16>>

\* minHeapAddr 0x2000
InfoB == <<1, 128, 64, 128, 64, 8, 128, 16>>

TypesA == <<0>> \o Rec(<<1>>, 8, <<65>>)

TypesB == <<0>> \o Rec(<<1>>, 16, <<66>>)

\* ids [2, 1]
TypesUnsorted == <<0>> \o Rec(<<2>>, 16, <<66>>) \o Rec(<<1>>, 8, <<65>>)

\* id 1 twice in one batch: "A" first, "B" last
TypesDup == <<0>> \o Rec(<<1>>, 8, <<65>>) \o Rec(<<1>>, 16, <<66>>)

\* thirteen records, ids [1, 3, 4, 5, 6, 7, 8, 1, 9, 10, 11, 12, 13] with id 1
\* "A" first and "B" last
TypesDup13 ==
    <<0>> \o Rec(<<1>>, 8, <<65>>) \o Rec(<<3>>, 8, <<67>>) \o Rec(<<4>>, 8, <<67>>)
          \o Rec(<<5>>, 8, <<67>>) \o Rec(<<6>>, 8, <<67>>) \o Rec(<<7>>, 8, <<67>>)
          \o Rec(<<8>>, 8, <<67>>) \o Rec(<<1>>, 16, <<66>>) \o Rec(<<9>>, 8, <<67>>)
          \o Rec(<<10>>, 8, <<67>>) \o Rec(<<11>>, 8, <<67>>) \o Rec(<<12>>, 8, <<67>>)
          \o Rec(<<13>>, 8, <<67>>)

\* a record cut after its second field
TypesTruncated == <<0, 1, 7>>

\* neither 0 nor 1
BadDiscriminant == <<2, 1>>

SpanDatas ==
    {<<InfoA>>, <<InfoB>>, <<TypesA>>, <<TypesUnsorted>>, <<TypesDup>>,
     <<TypesDup13>>, <<TypesTruncated>>, <<BadDiscriminant>>, <<TypesB, InfoA>>}

SpanEvents ==
    {Event("Experimental", "Span", <<>>, Small(1), TRUE, d) : d \in SpanDatas}
    \cup {Event("Experimental", "Span", <<>>, Small(1), FALSE, <<>>)}

\* the zero Event that ReadEvent returns beside an error other than io.EOF
ZeroEvent == Event("Bad", "", <<>>, Zero64, FALSE, <<>>)

\* events ParseTrace has no case for: an experimental event of another name, an
\* event of another kind, the zero Event of a failed read
SkipEvents ==
    {Event("Experimental", "GoroutineStack", <<Small(1), Small(1)>>, Small(1), FALSE, <<>>),
     Event("StateTransition", "", <<>>, Small(1), FALSE, <<>>),
     ZeroEvent}

(***************************************************************************)
(* ParseTrace                                                              *)
(***************************************************************************)
VARIABLES
    pc,                   \* "loop": in the read loop; "done": returned (out, nil);
                          \* "error": returned (nil, err); "panic": the process died
    onlyExistingObjects,  \* the -only-existing-objects flag
    allocFreeInfo,        \* TraceInfo
    typeMap,              \* map[int]TypeMeta
    allocs,               \* map[uint64]HeapObject
    out,                  \* the []PtrObjectMapping returned, printed by main
    stream,               \* the events ReadEvent has returned so far
    input,                \* argument of a function checked on its own
    output                \* its result

vars == <<pc, onlyExistingObjects, allocFreeInfo, typeMap, allocs, out, stream,
          input, output>>

Init ==
    /\ pc = "loop"
    /\ onlyExistingObjects \in BOOLEAN
    /\ allocFreeInfo = ZeroTraceInfo
    /\ typeMap = EmptyMap
    /\ allocs = EmptyMap
    /\ out = <<>>
    /\ stream = <<>>
    /\ input = <<>>
    /\ output = <<>>

\* ReadEvent returns e with a nil error
Read(e) ==
    /\ pc = "loop"
    /\ Len(stream) < MaxEvents
    /\ stream' = Append(stream, e)
    /\ UNCHANGED <<onlyExistingObjects, input, output>>

\* h := HeapObject{id: id, typ: int(typ), time: ev.Time()}
NewHeapObject(e) == [id |-> e.Args[1], typ |-> e.Args[2], time |-> e.time]

\* mutant: an exists event starts a new snapshot, dropping the ids of the previous one
HeapObjectResets(e) ==
    /\ Read(e)
    /\ allocs' = MapSet(EmptyMap, e.Args[1], NewHeapObject(e))
    /\ UNCHANGED <<pc, allocFreeInfo, typeMap, out>>

\* case "HeapObject"
HeapObject(e) ==
    /\ Read(e)
    /\ allocs' = MapSet(allocs, e.Args[1], NewHeapObject(e))
    /\ UNCHANGED <<pc, allocFreeInfo, typeMap, out>>

\* mutant: the snapshot-only guard inverted
AllocAppliedInverted(m, e, only) ==
    IF ~only THEN m ELSE MapSet(m, e.Args[1], NewHeapObject(e))

\* mutant: an alloc of an id already present keeps the old record
AllocAppliedKeepFirst(m, e, only) ==
    IF only \/ e.Args[1] \in DOMAIN m THEN m ELSE MapSet(m, e.Args[1], NewHeapObject(e))

\* allocs[id] = h unless onlyExistingObjects
AllocApplied(m, e, only) ==
    IF only THEN m ELSE MapSet(m, e.Args[1], NewHeapObject(e))

\* case "HeapObjectAlloc"
HeapObjectAlloc(e) ==
    /\ Read(e)
    /\ allocs' = AllocApplied(allocs, e, onlyExistingObjects)
    /\ UNCHANGED <<pc, allocFreeInfo, typeMap, out>>

\* mutant: a free event deletes nothing
FreeAppliedKeep(m, e, only) == m

\* mutant: a free event is applied in snapshot-only mode too
FreeAppliedAlways(m, e, only) == MapDelete(m, e.Args[1])

\* delete(allocs, id) unless onlyExistingObjects
FreeApplied(m, e, only) ==
    IF only THEN m ELSE MapDelete(m, e.Args[1])

\* case "HeapObjectFree"
HeapObjectFree(e) ==
    /\ Read(e)
    /\ allocs' = FreeApplied(allocs, e, onlyExistingObjects)
    /\ UNCHANGED <<pc, allocFreeInfo, typeMap, out>>

\* for _, t := range types { typeMap[t.Id] = t }
RECURSIVE MergeTypes(_, _)
MergeTypes(tm, types) ==
    IF types = <<>> THEN tm
    ELSE MergeTypes(MapSet(tm, Head(types).Id, Head(types)), Tail(types))

\* mutant: only the first info batch of a trace is kept
SetInfoKeepFirst(st, r) ==
    IF ~r.ok THEN [st EXCEPT !.panic = TRUE]
    ELSE IF st.info /= ZeroTraceInfo THEN st
    ELSE [st EXCEPT !.info = r.val]

\* mutant: a new info batch starts a new catalog
SetInfoResets(st, r) ==
    IF ~r.ok THEN [st EXCEPT !.panic = TRUE]
    ELSE [st EXCEPT !.info = r.val, !.types = EmptyMap]

\* allocFreeInfo = parseAllocFreeInfo(data); st is [panic, info, types]
SetInfo(st, r) == IF ~r.ok THEN [st EXCEPT !.panic = TRUE] ELSE [st EXCEPT !.info = r.val]

\* mutant: the catalog is rebuilt from each type batch
SetTypesReplace(st, r) ==
    IF ~r.ok THEN [st EXCEPT !.panic = TRUE]
    ELSE [st EXCEPT !.types = MergeTypes(EmptyMap, r.val)]

\* types := parseAllocFreeTypes(data), merged into typeMap
SetTypes(st, r) ==
    IF ~r.ok THEN [st EXCEPT !.panic = TRUE]
    ELSE [st EXCEPT !.types = MergeTypes(st.types, r.val)]

\* the body of "for _, b := range expData.Batches"; data[0] of an empty batch panics
ApplyBatch(st, data) ==
    IF Len(data) = 0 THEN [st EXCEPT !.panic = TRUE]
    ELSE IF data[1] = 1 THEN SetInfo(st, parseAllocFreeInfo(data))
    ELSE IF data[1] = 0 THEN SetTypes(st, parseAllocFreeTypes(data))
    ELSE st

RECURSIVE ApplyBatches(_, _)
ApplyBatches(st, batches) ==
    IF batches = <<>> \/ st.panic THEN st
    ELSE ApplyBatches(ApplyBatch(st, Head(batches)), Tail(batches))

\* mutant: a Span without data is skipped like an unknown event
SpanNoDataSkipped(e) ==
    /\ Read(e)
    /\ ~e.hasData
    /\ UNCHANGED <<pc, allocFreeInfo, typeMap, allocs, out>>

\* case "Span" with expData == nil: return nil, fmt.Errorf("expData is nil")
SpanNoData(e) ==
    /\ Read(e)
    /\ ~e.hasData
    /\ pc' = "error"
    /\ out' = <<>>
    /\ UNCHANGED <<allocFreeInfo, typeMap, allocs>>

\* case "Span" with batches
Span(e) ==
    /\ Read(e)
    /\ e.hasData
    /\ \E st \in {ApplyBatches([panic |-> FALSE, info |-> allocFreeInfo,
                                types |-> typeMap], e.Batches)} :
           /\ pc' = IF st.panic THEN "panic" ELSE "loop"
           /\ allocFreeInfo' = st.info
           /\ typeMap' = st.types
    /\ UNCHANGED <<allocs, out>>

\* mutant: the kind and name are not looked at, every other event is read as an alloc
SkipAsAlloc(e) ==
    /\ Read(e)
    /\ allocs' = IF Len(e.Args) >= 2
                 THEN MapSet(allocs, e.Args[1], NewHeapObject(e))
                 ELSE EmptyMap
    /\ UNCHANGED <<pc, allocFreeInfo, typeMap, out>>

\* an event the switch has no case for, or not of the experimental kind: continue
Skip(e) ==
    /\ Read(e)
    /\ UNCHANGED <<pc, allocFreeInfo, typeMap, allocs, out>>

\* the orders in which "for _, h := range allocs" may visit the map
RangeOrders(m) ==
    {o \in [1..Cardinality(DOMAIN m) -> DOMAIN m] :
        \A i, j \in 1..Cardinality(DOMAIN m) : i /= j => o[i] /= o[j]}

PtrObjectMapping(h, info, tm) ==
    [Ptr |-> Addr(h, info), TypeName |-> Type(h, tm), Size |-> Size(h, tm)]

\* the loop that appends a PtrObjectMapping for every h with a name
RECURSIVE Mappings(_, _, _)
Mappings(hs, info, tm) ==
    IF hs = <<>> THEN <<>>
    ELSE IF HasName(Head(hs), tm)
         THEN <<PtrObjectMapping(Head(hs), info, tm)>> \o Mappings(Tail(hs), info, tm)
         ELSE Mappings(Tail(hs), info, tm)

\* everything after the read loop, for the map visited in order o
Report(o, m, info, tm) ==
    Mappings(SortFunc([i \in 1..Len(o) |-> m[o[i]]], "time"), info, tm)

\* err == io.EOF: break, sort, build the mappings, return out, nil
ReadEOF ==
    /\ pc = "loop"
    /\ \E o \in RangeOrders(allocs) : out' = Report(o, allocs, allocFreeInfo, typeMap)
    /\ pc' = "done"
    /\ UNCHANGED <<onlyExistingObjects, allocFreeInfo, typeMap, allocs, stream,
                   input, output>>

Next ==
    \/ \E e \in ExistsEvents : HeapObject(e)
    \/ \E e \in AllocEvents : HeapObjectAlloc(e)
    \/ \E e \in FreeEvents : HeapObjectFree(e)
    \/ \E e \in SpanEvents : SpanNoData(e)
    \/ \E e \in SpanEvents : Span(e)
    \/ \E e \in SkipEvents : Skip(e)
    \/ ReadEOF

Spec == Init /\ [][Next]_vars

(***************************************************************************)
(* Reference readings of the stream, used by the properties below          *)
(***************************************************************************)
IsAlloc(e) == e.kind = "Experimental" /\ e.name \in {"HeapObject", "HeapObjectAlloc"}

IsFree(e) == e.kind = "Experimental" /\ e.name = "HeapObjectFree"

\* positions in the stream of the alloc-type events / the free events for id
AllocIdx(id) == {i \in 1..Len(stream) : IsAlloc(stream[i]) /\ stream[i].Args[1] = id}

FreeIdx(id) == {i \in 1..Len(stream) : IsFree(stream[i]) /\ stream[i].Args[1] = id}

\* the largest element of a set of positions, 0 for the empty set
MaxIdx(S) == IF S = {} THEN 0 ELSE CHOOSE x \in S : \A y \in S : y <= x

LastEvent == stream[Len(stream)]

\* C1 as stated: with snapshot-only mode off, the ids in the LiveSet are exactly the
\* ids with more alloc events than free events in the stream replayed so far
C1_NetCount ==
    ~onlyExistingObjects =>
        DOMAIN allocs =
            {id \in Ids : Cardinality(AllocIdx(id)) - Cardinality(FreeIdx(id)) > 0}

\* C1 amended: with snapshot-only mode off, the ids in the LiveSet are exactly the ids
\* with at least one alloc event after their last free event (the allocs counted from
\* the last free on, not over the whole stream)
C1_AllocsSinceLastFree ==
    ~onlyExistingObjects =>
        DOMAIN allocs =
            {id \in Ids :
                Cardinality({i \in AllocIdx(id) : \A j \in FreeIdx(id) : j < i}) > 0}

\* two allocs and one free of an id leave it out of the LiveSet while the other id is live
C1_Witness ==
    /\ ~onlyExistingObjects
    /\ \E id \in Ids :
          /\ Cardinality(AllocIdx(id)) = 2
          /\ Cardinality(FreeIdx(id)) = 1
          /\ id \notin DOMAIN allocs

\* C2: with snapshot-only mode off, in every state an id is in the LiveSet iff the
\* latest alloc-type or free event applied for it is an alloc-type event; right after
\* a free event its id is absent
C2_LiveIffNoLaterFree ==
    ~onlyExistingObjects =>
        /\ \A id \in Ids :
              id \in DOMAIN allocs <=>
                  /\ AllocIdx(id) /= {}
                  /\ MaxIdx(FreeIdx(id)) < MaxIdx(AllocIdx(id))
        /\ (stream /= <<>> /\ IsFree(LastEvent)) => LastEvent.Args[1] \notin DOMAIN allocs

\* an id was allocated and then freed, and the free is the event just applied
C2_Witness ==
    /\ ~onlyExistingObjects
    /\ stream /= <<>>
    /\ IsFree(LastEvent)
    /\ AllocIdx(LastEvent.Args[1]) /= {}
    /\ allocs /= EmptyMap

\* positions of the alloc-type events for id that ParseTrace applies in its mode
AppliedAllocIdx(id) ==
    {i \in AllocIdx(id) : stream[i].name = "HeapObject" \/ ~onlyExistingObjects}

\* C3: every LiveSet key k maps to one record, whose id is k and whose typeId and
\* arrivalOrder are those of the most recently applied alloc event for k; an alloc
\* event never ends the run
C3_LastAllocWins ==
    /\ \A k \in DOMAIN allocs :
          /\ AppliedAllocIdx(k) /= {}
          /\ allocs[k] = [id |-> k,
                          typ |-> stream[MaxIdx(AppliedAllocIdx(k))].Args[2],
                          time |-> stream[MaxIdx(AppliedAllocIdx(k))].time]
    /\ (stream /= <<>> /\ IsAlloc(LastEvent)) => pc \in {"loop", "done"}

\* an id allocated twice with different types and no free: the second type is kept
C3_Witness ==
    \E k \in DOMAIN allocs :
        /\ FreeIdx(k) = {}
        /\ Cardinality(AppliedAllocIdx(k)) = 2
        /\ \E i \in AppliedAllocIdx(k) : stream[i].Args[2] /= allocs[k].typ

\* the reports ParseTrace can return from the current state
ReportsOf == {Report(o, allocs, allocFreeInfo, typeMap) : o \in RangeOrders(allocs)}

\* C4: in snapshot-only mode an alloc or free event changes neither the LiveSet nor
\* the report that would be returned
C4_SnapshotFrozen ==
    [][(/\ onlyExistingObjects
        /\ stream' /= stream
        /\ stream'[Len(stream')].name \in {"HeapObjectAlloc", "HeapObjectFree"})
       => (allocs' = allocs /\ ReportsOf' = ReportsOf)]_vars

\* in snapshot-only mode a free event arrived for an id of the snapshot
C4_Witness ==
    /\ onlyExistingObjects
    /\ stream /= <<>>
    /\ IsFree(LastEvent)
    /\ LastEvent.Args[1] \in DOMAIN allocs
    /\ \E i \in 1..Len(stream) : stream[i].name = "HeapObject"

\* the live ids whose type is in the catalog
TypedLive == {k \in DOMAIN allocs : allocs[k].typ \in DOMAIN typeMap}

\* C5: the report has exactly one entry per live id whose typeId is in the catalog at
\* end of stream and no other entry; name and size come from that catalog entry
C5_ReportEntries ==
    pc = "done" =>
        /\ Len(out) = Cardinality(TypedLive)
        /\ \E o \in [1..Len(out) -> TypedLive] :
              /\ \A i, j \in 1..Len(out) : i /= j => o[i] /= o[j]
              /\ \A i \in 1..Len(out) :
                    out[i] = [Ptr |-> Add64(Mul8(o[i]), allocFreeInfo.MinPageHeapAddr),
                              TypeName |-> typeMap[allocs[o[i]].typ].Name,
                              Size |-> typeMap[allocs[o[i]].typ].Size]

\* two live objects, allocated before the type batch arrived; one has no catalog entry
C5_Witness ==
    /\ pc = "done"
    /\ Len(out) = 1
    /\ Cardinality(DOMAIN allocs) = 2
    /\ stream[1].name = "HeapObjectAlloc"
    /\ LastEvent.name = "Span"

\* C7 as stated: the report returned is the same whatever order the runtime visits the
\* LiveSet in, so two runs over the same stream and mode return the same report
C7_Deterministic ==
    pc = "done" => \A o \in RangeOrders(allocs) : out = Report(o, allocs, allocFreeInfo, typeMap)

\* the batches of the stream, in stream order
RECURSIVE StreamBatches(_)
StreamBatches(evs) ==
    IF evs = <<>> THEN <<>>
    ELSE (IF Head(evs).name = "Span" THEN Head(evs).Batches ELSE <<>>)
         \o StreamBatches(Tail(evs))

\* the type records of a sequence of batches, in buffer order
RECURSIVE BatchRecords(_)
BatchRecords(bs) ==
    IF bs = <<>> THEN <<>>
    ELSE (IF Len(Head(bs)) > 0 /\ Head(bs)[1] = 0
          THEN ReadTypeRecords(Tail(Head(bs)), <<>>).val ELSE <<>>)
         \o BatchRecords(Tail(bs))

StreamRecords == BatchRecords(StreamBatches(stream))

\* C8 as stated: the catalog holds, for each type id, the last record with that id in
\* stream order, across batches and inside one batch
C8_LastRecordWins ==
    pc /= "panic" =>
        /\ DOMAIN typeMap = {StreamRecords[i].Id : i \in 1..Len(StreamRecords)}
        /\ \A t \in DOMAIN typeMap :
              typeMap[t] =
                  StreamRecords[MaxIdx({i \in 1..Len(StreamRecords) : StreamRecords[i].Id = t})]

IsInfoBatch(b) == Len(b) > 0 /\ b[1] = 1

IsTypeBatch(b) == Len(b) > 0 /\ b[1] = 0

\* the info batches of the stream, in stream order
InfoBatches == SelectSeq(StreamBatches(stream), IsInfoBatch)

\* the four integers of the last info batch of the stream
LastInfoFields == ReadUvarints(Tail(InfoBatches[Len(InfoBatches)]), 4, <<>>).vals

\* C11: once an info batch was decoded, the HeapLayoutParams are those of the last info
\* batch of the stream, and every address of the report is id * 8 + minHeapAddr of that
\* batch, also for objects allocated before it
C11_LastInfoWins ==
    (pc /= "panic" /\ InfoBatches /= <<>>) =>
        /\ allocFreeInfo = [MinPageHeapAddr |-> LastInfoFields[1],
                            PageSize |-> LastInfoFields[2],
                            MinHeapAlign |-> LastInfoFields[3],
                            FixedStack |-> LastInfoFields[4]]
        /\ pc = "done" =>
              /\ Len(out) = Cardinality(TypedLive)
              /\ \A i \in 1..Len(out) :
                    \E k \in TypedLive : out[i].Ptr = Add64(Mul8(k), LastInfoFields[1])

\* an object allocated first, then two info batches with different minHeapAddr, and the
\* report lists the object
C11_Witness ==
    /\ pc = "done"
    /\ Len(InfoBatches) = 2
    /\ InfoBatches[1] /= InfoBatches[2]
    /\ stream[1].name = "HeapObjectAlloc"
    /\ out /= <<>>

\* a batch whose first byte is neither 0 nor 1
IsBadBatch(b) == Len(b) > 0 /\ b[1] \notin {0, 1}

\* C13 as stated: a batch inside a Span event whose first byte is neither 0 nor 1 aborts
\* the run: the loop is left without a report
C13_BadDiscriminantFatal ==
    (\E i \in 1..Len(StreamBatches(stream)) : IsBadBatch(StreamBatches(stream)[i]))
        => (pc \in {"panic", "error"} /\ out = <<>>)

IsSpanNoData(e) == e.kind = "Experimental" /\ e.name = "Span" /\ ~e.hasData

\* C14: a Span event without batch data is the last event processed; ParseTrace has
\* returned an error and no mappings, whatever was ingested before
C14_NoDataAborts ==
    /\ \A i \in 1..Len(stream) :
          IsSpanNoData(stream[i]) => (i = Len(stream) /\ pc = "error" /\ out = <<>>)
    /\ pc = "error" => (stream /= <<>> /\ IsSpanNoData(LastEvent))

\* the Span without data came after an alloc and a type batch were ingested
C14_Witness ==
    /\ pc = "error"
    /\ IsSpanNoData(LastEvent)
    /\ TypedLive /= {}

\* C15 as stated: a read that fails with an error other than end-of-stream is the last
\* read of the run; an error is returned and no report
C15_ReadErrorAborts ==
    \A i \in 1..Len(stream) :
        stream[i] = ZeroEvent => (i = Len(stream) /\ pc = "error" /\ out = <<>>)

\* C17: a free event for an id that is not in the LiveSet raises no error and leaves the
\* LiveSet, the catalog and the HeapLayoutParams as they were
C17_FreeAbsentNoOp ==
    [][(/\ stream' /= stream
        /\ IsFree(stream'[Len(stream')])
        /\ stream'[Len(stream')].Args[1] \notin DOMAIN allocs)
       => (/\ allocs' = allocs
           /\ typeMap' = typeMap
           /\ allocFreeInfo' = allocFreeInfo
           /\ pc' = "loop")]_vars

\* with snapshot-only mode off, a free arrived for an id never allocated while another
\* id is live and typed
C17_Witness ==
    /\ ~onlyExistingObjects
    /\ pc = "loop"
    /\ stream /= <<>>
    /\ IsFree(LastEvent)
    /\ AllocIdx(LastEvent.Args[1]) = {}
    /\ TypedLive /= {}

\* the id of every record of recs is a key of tm
RecordIdsIn(recs, tm) == \A i \in 1..Len(recs) : recs[i].Id \in DOMAIN tm

\* C18: no step removes a key of the catalog, and at report time every type id decoded
\* from the stream is a key of the catalog
C18_CatalogGrows ==
    /\ [][DOMAIN typeMap \subseteq DOMAIN typeMap']_vars
    /\ [](pc = "done" => RecordIdsIn(StreamRecords, typeMap))

\* the report was made after a batch with ids 1 and 2 and then a batch with id 1 only
C18_Witness ==
    /\ pc = "done"
    /\ Len(stream) >= 2
    /\ stream[Len(stream) - 1].Batches = <<TypesUnsorted>>
    /\ LastEvent.Batches = <<TypesA>>
    /\ Cardinality(DOMAIN typeMap) = 2

\* an event of another kind, or an experimental event of a name without a case
IsOtherEvent(e) ==
    /\ e /= ZeroEvent
    /\ \/ e.kind /= "Experimental"
       \/ e.name \notin {"HeapObject", "HeapObjectAlloc", "HeapObjectFree", "Span"}

\* C19: an event that is not experimental, or experimental with a name other than
\* HeapObject, HeapObjectAlloc, HeapObjectFree and Span, changes nothing and is no error
C19_OtherEventsIgnored ==
    [][(stream' /= stream /\ IsOtherEvent(stream'[Len(stream')]))
       => (/\ allocs' = allocs
           /\ typeMap' = typeMap
           /\ allocFreeInfo' = allocFreeInfo
           /\ out' = out
           /\ pc' = "loop")]_vars

\* an experimental event of another name arrived while an object is live and typed
C19_Witness ==
    /\ pc = "loop"
    /\ stream /= <<>>
    /\ IsOtherEvent(LastEvent)
    /\ LastEvent.kind = "Experimental"
    /\ TypedLive /= {}

\* a Span with data all of whose batches satisfy Test
AllBatches(e, Test(_)) ==
    /\ e.kind = "Experimental"
    /\ e.name = "Span"
    /\ e.hasData
    /\ \A j \in 1..Len(e.Batches) : Test(e.Batches[j])

\* C20: alloc, exists and free events never change the catalog or the HeapLayoutParams,
\* a Span of type batches never changes the LiveSet or the HeapLayoutParams, a Span of
\* info batches never changes the LiveSet or the catalog
C20_OwnEventKinds ==
    [][stream' /= stream =>
        /\ (IsAlloc(stream'[Len(stream')]) \/ IsFree(stream'[Len(stream')]))
              => (typeMap' = typeMap /\ allocFreeInfo' = allocFreeInfo)
        /\ AllBatches(stream'[Len(stream')], IsTypeBatch)
              => (allocs' = allocs /\ allocFreeInfo' = allocFreeInfo)
        /\ AllBatches(stream'[Len(stream')], IsInfoBatch)
              => (allocs' = allocs /\ typeMap' = typeMap)]_vars

\* an info batch arrived while the LiveSet and the catalog were not empty
C20_Witness ==
    /\ pc = "loop"
    /\ stream /= <<>>
    /\ AllBatches(LastEvent, IsInfoBatch)
    /\ LastEvent.Batches /= <<>>
    /\ TypedLive /= {}

\* the ids listed by the exists events of the stream
SnapshotIds ==
    {stream[i].Args[1] : i \in {j \in 1..Len(stream) : stream[j].kind = "Experimental"
                                                       /\ stream[j].name = "HeapObject"}}

\* every id of ids is in the live map m, and in the report rep when its type is in tm
KeptAndReported(ids, m, tm, info, rep) ==
    \A k \in ids :
        /\ k \in DOMAIN m
        /\ m[k].typ \in DOMAIN tm => \E i \in 1..Len(rep) : rep[i].Ptr = Addr(m[k], info)

RECURSIVE Digits(_)
Digits(n) == IF n < 10 THEN <<48 + n>> ELSE Append(Digits(n \div 10), 48 + (n % 10))

\* acc * 10 + d modulo 2^64
MulAdd10(acc, d) == Add64(Add64(Mul8(acc), Add64(acc, acc)), Small(d))

\* the unsigned integer written by decimal digits; ok = FALSE for a malformed token
RECURSIVE ParseDecimalFrom(_, _)
ParseDecimalFrom(cs, acc) ==
    IF cs = <<>> THEN [ok |-> TRUE, val |-> acc]
    ELSE IF Head(cs) < 48 \/ Head(cs) > 57 THEN [ok |-> FALSE, val |-> Zero64]
    ELSE ParseDecimalFrom(Tail(cs), MulAdd10(acc, Head(cs) - 48))

ParseDecimal(cs) ==
    IF cs = <<>> THEN [ok |-> FALSE, val |-> Zero64] ELSE ParseDecimalFrom(cs, Zero64)

\* "dt=", "id=", "typ3=", "data=" as characters
KeyDt == <<100, 116, 61>>

KeyId == <<105, 100, 61>>

KeyTyp3 == <<116, 121, 112, 51, 61>>

\* the token with its key removed; ok = FALSE when the key is not there
AfterKey(tok, key) ==
    IF Len(tok) >= Len(key) /\ SubSeq(tok, 1, Len(key)) = key
    THEN ParseDecimal(SubSeq(tok, Len(key) + 1, Len(tok)))
    ELSE [ok |-> FALSE, val |-> Zero64]

HexChar(d) == IF d < 10 THEN 48 + d ELSE 87 + d

HexVal(c) == IF c >= 48 /\ c <= 57 THEN c - 48 ELSE IF c >= 97 /\ c <= 102 THEN c - 87 ELSE 16

\* one byte quoted and escaped: a printable byte as it is, any other as \xhh
EscapeByte(b) ==
    IF b >= 32 /\ b <= 126 /\ b /= 34 /\ b /= 92 THEN <<b>>
    ELSE <<92, 120, HexChar(b \div 16), HexChar(b % 16)>>

\* a byte string quoted and escaped
RECURSIVE Escape(_)
Escape(bs) ==
    IF bs = <<>> THEN <<>>
    ELSE IF Len(bs) = 1 THEN EscapeByte(bs[1])
    ELSE Escape(SubSeq(bs, 1, Len(bs) \div 2)) \o Escape(SubSeq(bs, Len(bs) \div 2 + 1, Len(bs)))

\* character i of cs is one of the three characters after a backslash
InEscape(cs, i) == \E d \in 1..3 : i - d >= 1 /\ cs[i - d] = 92

\* a backslash starts a well-formed \xhh
GoodEscape(cs, i) ==
    /\ i + 3 <= Len(cs)
    /\ cs[i + 1] = 120
    /\ HexVal(cs[i + 2]) <= 15
    /\ HexVal(cs[i + 3]) <= 15

\* the byte written at position i of cs, the first character of a byte
ByteAt(cs, i) == IF cs[i] = 92 THEN HexVal(cs[i + 2]) * 16 + HexVal(cs[i + 3]) ELSE cs[i]

\* starts holds the positions of cs where a byte begins
BytesAt(cs, starts) == [k \in 1..Len(starts) |-> ByteAt(cs, starts[k])]

\* the raw bytes of an escaped string; ok = FALSE for a malformed escape
Unescape(cs) ==
    IF \E i \in 1..Len(cs) : cs[i] = 34 \/ (cs[i] = 92 /\ ~GoodEscape(cs, i))
    THEN [ok |-> FALSE, val |-> <<>>]
    ELSE [ok |-> TRUE,
          val |-> BytesAt(cs, SelectSeq([i \in 1..Len(cs) |-> i],
                                        LAMBDA i : ~InEscape(cs, i)))]

\* the line "\tdata=<quoted>": its quoted content, between the two quotes
DataPrefix == <<9, 100, 97, 116, 97, 61, 34>>

DataLine(bs) == [head |-> "data", rest |-> DataPrefix \o Escape(bs) \o <<34>>]

ReadDataLine(l) ==
    IF /\ l.head = "data"
       /\ Len(l.rest) > Len(DataPrefix)
       /\ SubSeq(l.rest, 1, Len(DataPrefix)) = DataPrefix
       /\ l.rest[Len(l.rest)] = 34
    THEN Unescape(SubSeq(l.rest, Len(DataPrefix) + 1, Len(l.rest) - 1))
    ELSE [ok |-> FALSE, val |-> <<>>]

\* the lines that express one binary event: values below 2^16 are written in decimal
RECURSIVE BatchLines(_)
BatchLines(bs) ==
    IF bs = <<>> THEN <<>>
    ELSE <<[head |-> "ExperimentalBatch exp=1", rest |-> <<>>], DataLine(Head(bs))>>
         \o BatchLines(Tail(bs))

TextLines(e) ==
    CASE e.name = "HeapObjectAlloc" ->
            <<[head |-> "HeapObjectAlloc",
               rest |-> <<KeyDt \o Digits(e.time[1]), KeyId \o Digits(e.Args[1][1]),
                          KeyTyp3 \o Digits(e.Args[2][1])>>]>>
      [] e.name = "HeapObjectFree" ->
            <<[head |-> "HeapObjectFree",
               rest |-> <<KeyDt \o Digits(e.time[1]), KeyId \o Digits(e.Args[1][1])>>]>>
      [] e.name = "Span" -> BatchLines(e.Batches)
      [] OTHER -> <<[head |-> "", rest |-> <<>>]>>

RECURSIVE TextOf(_)
TextOf(evs) == IF evs = <<>> THEN <<>> ELSE TextLines(Head(evs)) \o TextOf(Tail(evs))

\* the state of a run over text: the counter that supplies arrivalOrder, the LiveSet,
\* and the catalog and HeapLayoutParams with the fatal flag (as ApplyBatch keeps them)
TextInit ==
    [n |-> 0, live |-> EmptyMap,
     dec |-> [panic |-> FALSE, info |-> ZeroTraceInfo, types |-> EmptyMap]]

\* a "HeapObjectAlloc" line whose id and typ3 tokens were read
TextAlloc(st, id, typ) ==
    IF ~id.ok \/ ~typ.ok THEN [st EXCEPT !.dec.panic = TRUE]
    ELSE [st EXCEPT !.n = st.n + 1,
                    !.live = MapSet(st.live, id.val,
                                    [id |-> id.val, typ |-> typ.val, time |-> Small(st.n + 1)])]

\* a "HeapObjectFree" line whose id token was read
TextFree(st, id) ==
    IF ~id.ok THEN [st EXCEPT !.dec.panic = TRUE]
    ELSE [st EXCEPT !.live = MapDelete(st.live, id.val)]

\* the data line after "ExperimentalBatch exp=1" was read
TextBatch(st, d) ==
    IF ~d.ok THEN [st EXCEPT !.dec.panic = TRUE]
    ELSE [st EXCEPT !.dec = ApplyBatch(st.dec, d.val)]

\* the lines of the dump, in order
RECURSIVE TextIngest(_, _)
TextIngest(lines, st) ==
    IF lines = <<>> \/ st.dec.panic THEN st
    ELSE IF Head(lines).head = "HeapObjectAlloc"
         THEN TextIngest(Tail(lines),
                         TextAlloc(st, AfterKey(Head(lines).rest[2], KeyId),
                                   AfterKey(Head(lines).rest[3], KeyTyp3)))
    ELSE IF Head(lines).head = "HeapObjectFree"
         THEN TextIngest(Tail(lines), TextFree(st, AfterKey(Head(lines).rest[2], KeyId)))
    ELSE IF Head(lines).head = "ExperimentalBatch exp=1"
         THEN IF Len(lines) < 2 THEN [st EXCEPT !.dec.panic = TRUE]
              ELSE IF Head(Tail(lines)).head = "" THEN TextIngest(Tail(Tail(lines)), st)
              ELSE TextIngest(Tail(Tail(lines)), TextBatch(st, ReadDataLine(lines[2])))
    ELSE TextIngest(Tail(lines), st)

\* the report of a run over text: the LiveSet in the order of the counter
TextReport(st) ==
    Mappings(SortFunc([i \in 1..Cardinality(DOMAIN st.live) |->
                          st.live[(CHOOSE o \in RangeOrders(st.live) : TRUE)[i]]], "time"),
             st.dec.info, st.dec.types)

\* a fixture that both adapters can express: alloc, free and Span events with batch
\* data, the binary timestamps never decreasing along the stream
IsFixture(evs) ==
    /\ \A i \in 1..Len(evs) :
          /\ evs[i].kind = "Experimental"
          /\ evs[i].name \in {"HeapObjectAlloc", "HeapObjectFree", "Span"}
          /\ evs[i].name = "Span" => evs[i].hasData
    /\ \A i, j \in 1..Len(evs) :
          (i < j /\ evs[i].name = "HeapObjectAlloc" /\ evs[j].name = "HeapObjectAlloc")
              => SLe(evs[i].time, evs[j].time)

\* t is the final state of the text run over the lines of the stream
AgreesWithText(t) ==
    /\ ~t.dec.panic
    /\ DOMAIN t.live = DOMAIN allocs
    /\ \A k \in DOMAIN allocs : t.live[k].typ = allocs[k].typ
    /\ t.dec.types = typeMap
    /\ t.dec.info = allocFreeInfo
    /\ TextReport(t) = out

\* C16 as stated: for a fixture expressed as binary events and as text lines, both runs
\* end with the same LiveSet and catalog and the same report lines in the same order
C16_AdaptersAgree ==
    (pc = "done" /\ ~onlyExistingObjects /\ IsFixture(stream))
        => AgreesWithText(TextIngest(TextOf(stream), TextInit))

(***************************************************************************)
(* ParseTrace over timestamps from the whole int64 range                   *)
(***************************************************************************)
\* -2^63, -1, 1, 2^63 - 1
WideTimes == {MinInt64, MaxUint64, Small(1), MaxInt64}

WideAllocEvents ==
    {Event("Experimental", "HeapObjectAlloc", <<i, Small(1)>>, tm, FALSE, <<>>) :
        i \in Ids, tm \in WideTimes}

WideSpanEvents ==
    {Event("Experimental", "Span", <<>>, Small(1), TRUE, <<TypesA>>),
     Event("Experimental", "Span", <<>>, Small(1), FALSE, <<>>)}

NextWide ==
    \/ \E e \in ExistsEvents : HeapObject(e)
    \/ \E e \in WideAllocEvents : HeapObjectAlloc(e)
    \/ \E e \in FreeEvents : HeapObjectFree(e)
    \/ \E e \in WideSpanEvents : SpanNoData(e)
    \/ \E e \in WideSpanEvents : Span(e)
    \/ \E e \in {ZeroEvent} : Skip(e)
    \/ ReadEOF

SpecWide == Init /\ [][NextWide]_vars

\* C6 as stated: the report lists the live objects in non-decreasing arrivalOrder, for
\* every pair of timestamps of the signed 64-bit range
C6_SortedByArrival ==
    pc = "done" =>
        \A i, j \in 1..Len(out) : i < j =>
            \A a, b \in DOMAIN allocs :
                (/\ Addr(allocs[a], allocFreeInfo) = out[i].Ptr
                 /\ Addr(allocs[b], allocFreeInfo) = out[j].Ptr)
                => SLe(allocs[a].time, allocs[b].time)

(***************************************************************************)
(* ParseTrace over batches cut short                                       *)
(***************************************************************************)
\* a type batch of two records: id 129 (a two-byte varint) named "BC", id 1 named "A"
TypesTwo == <<0>> \o Rec(<<129, 1>>, 16, <<66, 67>>) \o Rec(<<1>>, 8, <<65>>)

\* the buffers that are the first n bytes of b, discriminant included, for n < Len(b)
Prefixes(b) == {SubSeq(b, 1, n) : n \in 1..(Len(b) - 1)}

\* the prefixes of TypesTwo that end between two records
TypesTwoWhole == {<<0>>, <<0>> \o Rec(<<129, 1>>, 16, <<66, 67>>)}

\* buffers that end inside a varint or inside a record
TruncatedBatches == Prefixes(InfoA) \cup (Prefixes(TypesTwo) \ TypesTwoWhole)

WholeBatches == {InfoA, InfoB, TypesTwo} \cup TypesTwoWhole

TruncSpanEvents ==
    {Event("Experimental", "Span", <<>>, Small(1), TRUE, <<b>>) :
        b \in WholeBatches \cup TruncatedBatches}

NextTrunc ==
    \/ \E e \in AllocEvents : HeapObjectAlloc(e)
    \/ \E e \in TruncSpanEvents : Span(e)
    \/ ReadEOF

SpecTrunc == Init /\ [][NextTrunc]_vars

\* C12: a Span whose batch ends inside a varint or inside a record kills the run; the
\* catalog and the HeapLayoutParams are left as they were before that batch, and no
\* report is returned then or later
C12_TruncatedFatal ==
    [][/\ (/\ stream' /= stream
           /\ stream'[Len(stream')].name = "Span"
           /\ stream'[Len(stream')].Batches[1] \in TruncatedBatches)
          => (/\ pc' = "panic"
              /\ typeMap' = typeMap
              /\ allocFreeInfo' = allocFreeInfo
              /\ out' = <<>>)
       /\ pc = "panic" => (pc' = "panic" /\ out' = <<>>)]_vars

\* the run died on a type batch cut inside its second record, after an info batch and a
\* type batch had been decoded
C12_Witness ==
    /\ pc = "panic"
    /\ LastEvent.Batches[1] \in Prefixes(TypesTwo)
    /\ Len(LastEvent.Batches[1]) > 9
    /\ typeMap /= EmptyMap
    /\ allocFreeInfo /= ZeroTraceInfo

(***************************************************************************)
(* Functions checked on their own: the machine stays in its initial state  *)
(***************************************************************************)
Idle ==
    /\ onlyExistingObjects = FALSE
    /\ allocFreeInfo = ZeroTraceInfo
    /\ typeMap = EmptyMap
    /\ allocs = EmptyMap
    /\ out = <<>>
    /\ stream = <<>>

IdleNext == UNCHANGED <<onlyExistingObjects, allocFreeInfo, typeMap, allocs, out, stream>>

MaxRecs == 3

\* ids as varints: 1, 2, 2^63 - 1, 2^63 (int -2^63), 2^64 - 1 (int -1)
WideIdBytes ==
    {<<1>>, <<2>>,
     <<255, 255, 255, 255, 255, 255, 255, 255, 127>>,
     <<128, 128, 128, 128, 128, 128, 128, 128, 128, 1>>,
     <<255, 255, 255, 255, 255, 255, 255, 255, 255, 1>>}

RECURSIVE RecsOf(_)
RecsOf(ids) ==
    IF ids = <<>> THEN <<>> ELSE Rec(Head(ids), 8, <<65>>) \o RecsOf(Tail(ids))

\* the well-formed type batches of at most MaxRecs records over WideIdBytes
WideTypeBatches ==
    {<<0>> \o RecsOf(ids) : ids \in UNION {[1..n -> WideIdBytes] : n \in 0..MaxRecs}}

InitTypes ==
    /\ Idle
    /\ pc = "call"
    /\ input \in WideTypeBatches
    /\ output = <<>>

\* types := parseAllocFreeTypes(data)
DecodeTypes ==
    /\ pc = "call"
    /\ output' = parseAllocFreeTypes(input)
    /\ pc' = "return"
    /\ UNCHANGED input
    /\ IdleNext

SpecTypes == InitTypes /\ [][DecodeTypes]_vars

\* C9 as stated: the entries of every well-formed batch are returned in ascending id
\* order, the ids read as the signed integer keys they are narrowed to
C9_AscendingIds ==
    (pc = "return" /\ output.ok) =>
        \A i, j \in 1..Len(output.val) : i < j => SLe(output.val[i].Id, output.val[j].Id)

(***************************************************************************)
(* AddressResolver                                                         *)
(***************************************************************************)
\* resolve(id, p): HeapObject.Addr
Resolve(id, p) == Addr([id |-> id], p)

\* unresolve(address, p) = (address - p.minHeapAddr) / 8
Unresolve(a, p) == Div8(Sub64(a, p.MinPageHeapAddr))

\* 2^61
TwoTo61 == <<0, 0, 0, 8192>>

AddrValues ==
    {Zero64, Small(5), Small(4136), Small(4137), TwoTo61, Add64(TwoTo61, Small(5)),
     MinInt64, MaxInt64, MaxUint64, Sub64(TwoTo61, Small(1)), Small(4096), Small(8)}

MinHeapAddrs == {Zero64, Small(4096), Add64(MinInt64, Small(8)), Sub64(MaxUint64, Small(7))}

InitAddr ==
    /\ Idle
    /\ pc = "call"
    /\ input \in [x : AddrValues, p : [MinPageHeapAddr : MinHeapAddrs]]
    /\ output = <<>>

\* the value the next call is applied to: the input, then the previous result
Operand == IF output = <<>> THEN input.x ELSE output[Len(output)].val

DoResolve ==
    /\ pc = "call"
    /\ Len(output) < 2
    /\ \A i \in 1..Len(output) : output[i].op /= "resolve"
    /\ output' = Append(output, [op |-> "resolve", val |-> Resolve(Operand, input.p)])
    /\ UNCHANGED <<pc, input>>
    /\ IdleNext

DoUnresolve ==
    /\ pc = "call"
    /\ Len(output) < 2
    /\ \A i \in 1..Len(output) : output[i].op /= "unresolve"
    /\ output' = Append(output, [op |-> "unresolve", val |-> Unresolve(Operand, input.p)])
    /\ UNCHANGED <<pc, input>>
    /\ IdleNext

NextAddr == DoResolve \/ DoUnresolve

SpecAddr == InitAddr /\ [][NextAddr]_vars

Ops == [i \in 1..Len(output) |-> output[i].op]

\* an address at or above p.minHeapAddr and 8-aligned relative to it
AlignedAbove(a, p) ==
    /\ ~ULt(a, p.MinPageHeapAddr)
    /\ Sub64(a, p.MinPageHeapAddr)[1] % 8 = 0

\* C10 as stated: unresolve(resolve(id, p), p) = id for every 64-bit id, and
\* resolve(unresolve(a, p), p) = a for every a at or above p.minHeapAddr and 8-aligned
C10_InverseAll ==
    /\ Ops = <<"resolve", "unresolve">> => output[2].val = input.x
    /\ (Ops = <<"unresolve", "resolve">> /\ AlignedAbove(input.x, input.p))
           => output[2].val = input.x

\* C10 amended: unresolve(resolve(id, p), p) = id for every id below 2^61 (the ids whose
\* product with 8 fits in 64 bits), resolve(unresolve(a, p), p) = a for every a at or
\* above p.minHeapAddr and 8-aligned relative to it, and resolve(5, {0x1000}) = 0x1028
C10_InverseBelow2To61 ==
    /\ (Ops = <<"resolve", "unresolve">> /\ ULt(input.x, TwoTo61))
           => output[2].val = input.x
    /\ (Ops = <<"unresolve", "resolve">> /\ AlignedAbove(input.x, input.p))
           => output[2].val = input.x
    /\ (/\ Len(output) >= 1
        /\ output[1].op = "resolve"
        /\ input.x = Small(5)
        /\ input.p.MinPageHeapAddr = Small(4096))
           => output[1].val = Small(4136)

\* resolve(5, {0x1000}) = 0x1028 was unresolved back to 5
C10_Witness ==
    /\ pc = "call"
    /\ input = [x |-> Small(5), p |-> [MinPageHeapAddr |-> Small(4096)]]
    /\ output = <<[op |-> "resolve", val |-> Small(4136)], [op |-> "unresolve", val |-> Small(5)]>>

====
